---- MODULE Spec2Model ----
(***************************************************************************)
(* Model of the asynchronous job orchestration of ToSpeech's backend:      *)
(*   Backend/main.py   - load_model_pipeline (single-slot model cache),    *)
(*                       generate_audio_celery, get_task_status,           *)
(*                       cancel_task                                       *)
(*   Backend/tasks.py  - generate_audio_task (the worker side of a job)    *)
(*   Backend/celery_app.py - the queue configuration                       *)
(***************************************************************************)
EXTENDS Integers, FiniteSets, Sequences, TLC

(***************************************************************************)
(* Bounds of the model                                                     *)
(***************************************************************************)
MaxCallers == 2      \* threads calling load_model_pipeline in one process
MaxCalls == 3        \* load_model_pipeline calls started in the cache specifications
MaxJobs == 1         \* jobs submitted
MaxTaskIds == 2      \* task ids that exist (specification of the API front)
MaxWorkers == 1      \* worker processes
MaxRuns == 2         \* executions of one job started (specification with worker loss)

Callers == 1..MaxCallers
Jobs == 1..MaxTaskIds
Workers == 1..MaxWorkers

(***************************************************************************)
(* Model names.  The code decides the model family from substrings of the  *)
(* name (main.py:523, main.py:542, tasks.py:92).                           *)
(***************************************************************************)
ModelNames == {"VibeVoice-Realtime-0.5B", "VibeVoice-1.5B", "speecht5_tts"}

\* "VibeVoice" in model_name
HasVibeVoice(m) == m \in {"VibeVoice-Realtime-0.5B", "VibeVoice-1.5B"}

\* "Realtime" in model_name or "0.5B" in model_name
is_realtime(m) == m \in {"VibeVoice-Realtime-0.5B"}

\* get_compute_device: mps, else cuda, else cpu
Devices == {"mps", "cuda", "cpu"}

get_compute_device(mps, cuda) ==
    IF mps THEN "mps" ELSE IF cuda THEN "cuda" ELSE "cpu"

VARIABLES
    LOADED_MODELS,        \* per process: model name -> cache entry
    VIBEVOICE_AVAILABLE,  \* whether the VibeVoice import succeeded at start-up
    nloads,               \* number of model objects created so far (handle identity)
    acq,                  \* per caller thread: the position inside load_model_pipeline
    ncalls,               \* load_model_pipeline calls started (cache specifications)
    nsubmitted,           \* jobs submitted so far; job ids are 1..nsubmitted
    request,              \* per job: the arguments of generate_audio_task
    pc,                   \* per job: the position of its execution
    owner,                \* per job: the worker process that executes it (0: none)
    loaded_obj,           \* per job: the "type" of the object load_model_pipeline returned
    retval,               \* per job: the 'status' of the dict the task returns
    meta,                 \* per job: the celery-task-meta-<id> record of the result backend
    marker,               \* per job: remaining lifetime of the key task_cancelled:<id> (0: absent)
    inbox,                \* per worker: revoke requests broadcast and not yet processed
    revoked,              \* per worker: the ids the worker knows as revoked
    files,                \* per job: audio files it wrote into AUDIO_DIR
    rows,                 \* per job: AudioHistory rows it committed
    persistFailed,        \* per job: a persistence step after the file write failed
    markerAtReturn,       \* per job: the marker was present when the synthesis call returned
    canc,                 \* per job: the cancel_task handler in flight
    report,               \* per job: the "status" of the last cancel_task response
    ran,                  \* per job: the workers that started executing it, in order
    issued,               \* the task ids generate_audio_celery has returned, in order
    status_resp,          \* the last response of get_task_status
    now,                  \* the clock (datetime.utcnow()), in ticks
    nticks,               \* steps of the clock so far
    file_resp,            \* the last request to get_audio_file and its outcome
    soft_limit,           \* per job: SoftTimeLimitExceeded was raised in its execution
    wav,                  \* the last sample array normalised to 16-bit PCM, and the result
    probe_errors,         \* per job: the store failed during a call of stop_check_fn
    download_progress,    \* per repo_id: the "status" of its entry (absent: no entry)
    dl_accepted,          \* per repo_id: downloads accepted whose background task has not started
    dl_running,           \* per repo_id: download_model_task calls that are executing
    dl_resp               \* the last response of download_model

cacheVars == <<LOADED_MODELS, VIBEVOICE_AVAILABLE, nloads>>
callVars == <<acq, ncalls>>
taskVars == <<pc, owner, loaded_obj, retval>>
storeVars == <<meta, marker>>
revokeVars == <<inbox, revoked>>
artifactVars == <<files, rows, persistFailed, markerAtReturn>>
cancelVars == <<canc, report>>
apiVars == <<status_resp, now, nticks, file_resp>>
downloadVars == <<download_progress, dl_accepted, dl_running, dl_resp>>
jobVars == <<nsubmitted, issued, request, taskVars, storeVars, revokeVars, artifactVars,
             cancelVars, ran, apiVars, soft_limit, wav,
             probe_errors, downloadVars>>
vars == <<cacheVars, callVars, jobVars>>

EmptyCache == << >>

NoEntry == [type |-> "none", subtype |-> "none", handle |-> 0]

(***************************************************************************)
(* load_model_pipeline, as functions of the cache                          *)
(***************************************************************************)

\* (variant: the membership test is missing)
CacheHitNever(cache, m) == FALSE

\* main.py:498  "if model_name in LOADED_MODELS"
CacheHit(cache, m) == m \in DOMAIN cache

\* (variant: the previous models are kept)
EvictOthersKeepsAll(cache) == cache

\* (variant: the cache is cleared only when it holds more than one model)
EvictOthersWhenSeveral(cache) ==
    IF Cardinality(DOMAIN cache) > 1 THEN EmptyCache ELSE cache

\* main.py:502-504  "if len(LOADED_MODELS) > 0: LOADED_MODELS.clear()"
EvictOthers(cache) ==
    IF Cardinality(DOMAIN cache) > 0 THEN EmptyCache ELSE cache

\* The attention implementation chosen for a device (main.py:527-538)
attn_impl(device) == IF device = "cuda" THEN "flash_attention_2" ELSE "sdpa"

\* The loader's outcome: the tag of the loaded object, or "raise".
\* ok1: the first from_pretrained / pipeline(...) call succeeds
\* ok2: the retry (SDPA for VibeVoice on cuda, CPU for a pipeline) succeeds
LoadOutcome(m, avail, device, ok1, ok2) ==
    IF HasVibeVoice(m) /\ avail
    THEN IF ok1 \/ (attn_impl(device) = "flash_attention_2" /\ ok2)
         THEN IF is_realtime(m) THEN "vibevoice_streaming" ELSE "vibevoice_standard"
         ELSE "raise"
    ELSE IF ok1 \/ ok2 THEN "pipeline" ELSE "raise"

\* The cache entry built for a loaded object (main.py:605-610, 625, 631)
MakeEntry(tag, h) ==
    IF tag = "pipeline"
    THEN [type |-> "pipeline", subtype |-> "none", handle |-> h]
    ELSE [type |-> "vibevoice", subtype |-> tag, handle |-> h]

\* LOADED_MODELS[model_name] = entry
InsertEntry(cache, m, e) ==
    [k \in DOMAIN cache \cup {m} |-> IF k = m THEN e ELSE cache[k]]

\* load_model_pipeline as one call: the cache afterwards and what the caller gets
\* ("raise", or the entry returned).  h is the identity of a newly created object.
load_model_pipeline(cache, m, avail, device, ok1, ok2, h) ==
    IF CacheHit(cache, m)
    THEN [cache |-> cache, raised |-> FALSE, entry |-> cache[m], loaded |-> FALSE]
    ELSE LET tag == LoadOutcome(m, avail, device, ok1, ok2)
             evicted == EvictOthers(cache)
         IN  IF tag = "raise"
             THEN [cache |-> evicted, raised |-> TRUE, entry |-> NoEntry, loaded |-> FALSE]
             ELSE [cache |-> InsertEntry(evicted, m, MakeEntry(tag, h)),
                   raised |-> FALSE, entry |-> MakeEntry(tag, h), loaded |-> TRUE]

(***************************************************************************)
(* load_model_pipeline step by step, for caller threads of process 1       *)
(***************************************************************************)
CacheProc == 1

IdleCall == [pc |-> "idle", name |-> "none", entry |-> NoEntry,
             ret |-> "none", evicted |-> {}, failed |-> FALSE]

AllIdle == \A c \in Callers : acq[c].pc = "idle"

\* A thread enters load_model_pipeline(model_name) while no other call is in flight.
AcqCallSeq(c, m) ==
    /\ acq[c].pc = "idle"
    /\ AllIdle
    /\ ncalls < MaxCalls
    /\ acq' = [acq EXCEPT ![c] = [IdleCall EXCEPT !.pc = "check", !.name = m]]
    /\ ncalls' = ncalls + 1
    /\ UNCHANGED <<cacheVars, jobVars>>

\* A thread enters load_model_pipeline(model_name), whatever the other threads do.
AcqCallConc(c, m) ==
    /\ acq[c].pc = "idle"
    /\ ncalls < MaxCalls
    /\ acq' = [acq EXCEPT ![c] = [IdleCall EXCEPT !.pc = "check", !.name = m]]
    /\ ncalls' = ncalls + 1
    /\ UNCHANGED <<cacheVars, jobVars>>

\* main.py:498-499
AcqCheck(c) ==
    /\ acq[c].pc = "check"
    /\ IF CacheHit(LOADED_MODELS[CacheProc], acq[c].name)
       THEN acq' = [acq EXCEPT ![c].pc = "idle", ![c].ret = "hit",
                               ![c].entry = LOADED_MODELS[CacheProc][acq[c].name]]
       ELSE acq' = [acq EXCEPT ![c].pc = "evict"]
    /\ UNCHANGED <<cacheVars, ncalls, jobVars>>

\* main.py:502-508
AcqEvict(c) ==
    /\ acq[c].pc = "evict"
    /\ LOADED_MODELS' = [LOADED_MODELS EXCEPT ![CacheProc] = EvictOthers(@)]
    /\ acq' = [acq EXCEPT ![c].pc = "load",
                           ![c].evicted = DOMAIN LOADED_MODELS[CacheProc]
                                          \ DOMAIN EvictOthers(LOADED_MODELS[CacheProc])]
    /\ UNCHANGED <<VIBEVOICE_AVAILABLE, nloads, ncalls, jobVars>>

\* main.py:510-603, 622-630: the load itself, under the device the runtime reports
AcqLoad(c) ==
    /\ acq[c].pc = "load"
    /\ \E mps \in BOOLEAN, cuda \in BOOLEAN, ok1 \in BOOLEAN, ok2 \in BOOLEAN :
         LET tag == LoadOutcome(acq[c].name, VIBEVOICE_AVAILABLE,
                                get_compute_device(mps, cuda), ok1, ok2)
         IN  IF tag = "raise"
             THEN /\ acq' = [acq EXCEPT ![c].pc = "idle", ![c].ret = "raised",
                                        ![c].failed = ~ok1]
                  /\ nloads' = nloads
             ELSE /\ acq' = [acq EXCEPT ![c].pc = "insert", ![c].failed = ~ok1,
                                        ![c].entry = MakeEntry(tag, nloads + 1)]
                  /\ nloads' = nloads + 1
    /\ UNCHANGED <<LOADED_MODELS, VIBEVOICE_AVAILABLE, ncalls, jobVars>>

\* main.py:605-612, 625-627, 631-632
AcqInsert(c) ==
    /\ acq[c].pc = "insert"
    /\ LOADED_MODELS' = [LOADED_MODELS EXCEPT
                            ![CacheProc] = InsertEntry(@, acq[c].name, acq[c].entry)]
    /\ acq' = [acq EXCEPT ![c].pc = "idle", ![c].ret = "loaded"]
    /\ UNCHANGED <<VIBEVOICE_AVAILABLE, nloads, ncalls, jobVars>>

(***************************************************************************)
(* Jobs: the state of the result backend, the queue and the workers        *)
(***************************************************************************)

\* The speaker argument, by what the code can tell about it:
\*   "none"      no speaker given (None or "")
\*   "valid"     a plain name whose voice file exists for the model family
\*   "missing"   a plain name without a voice file
\*   "traversal" os.path.basename(speaker) != speaker
\*   "REVOKED"   a plain name that contains the text REVOKED
Speakers == {"none", "valid", "missing", "traversal", "REVOKED"}

NoRequest == [model_name |-> "none", speaker |-> "none"]

\* Celery's states of a task; a task without a record in the backend reads PENDING.
TerminalStates == {"SUCCESS", "FAILURE", "REVOKED"}

NoMeta == [state |-> "PENDING", status |-> "", result |-> "none"]

\* self.update_state(state='PROGRESS', meta={'status': note})
update_state(note) == [state |-> "PROGRESS", status |-> note, result |-> "none"]

\* the record Celery stores when the task function returns a dict
mark_as_done(status) == [state |-> "SUCCESS", status |-> "", result |-> status]

\* the record Celery stores for a revoked task
mark_as_revoked == [state |-> "REVOKED", status |-> "", result |-> "none"]

\* the record Celery stores when the task function raises
mark_as_failure == [state |-> "FAILURE", status |-> "", result |-> "none"]

\* the record Celery stores when a worker starts a task (task_track_started)
mark_as_started == [state |-> "STARTED", status |-> "", result |-> "none"]

(***************************************************************************)
(* Signed links: create_access_signature, sign_path (main.py:154-170) and  *)
(* the checks of get_audio_file (main.py:172-196)                          *)
(***************************************************************************)
TicksPerSecond == 2     \* clock readings are fractions of a second
MaxTicks == 2           \* steps of the clock

SECRET_KEY == "SECRET_KEY_GOES_HERE_CHANGE_IN_PROD"

LINK_TTL_MINUTES == 60

\* timedelta(minutes=60), in ticks
LinkLifetime == LINK_TTL_MINUTES * 60 * TicksPerSecond

\* int(d.timestamp()) of a clock reading: whole seconds, the fraction dropped
IntTimestamp(t) == t \div TicksPerSecond

\* hmac.new(key, data, sha256).hexdigest(): a text of ASCII characters that is
\* different for different (key, data)
hmac_hexdigest(key, data) == "hmac(" \o key \o "," \o data \o ")"

\* (variant: the expiry is not part of the signed data)
create_access_signature_name_only(filename, expires_timestamp) ==
    hmac_hexdigest(SECRET_KEY, filename)

\* main.py:154-157
create_access_signature(filename, expires_timestamp) ==
    hmac_hexdigest(SECRET_KEY, filename \o ":" \o ToString(expires_timestamp))

\* A path is the sequence of its segments: <<"static", "a.wav">> is "/static/a.wav".
\* A URL is a path with the query parameters expires and signature; a URL
\* without a query reads as expires = 0 and signature = "", the defaults of
\* get_audio_file's parameters (main.py:173).
Url(path, expires, signature) ==
    [path |-> path, expires |-> expires, signature |-> signature]

NoLink == Url(<< >>, 0, "")

\* path.startswith("/static/")
StartsWithStatic(path) == Len(path) >= 2 /\ path[1] = "static"

\* (variant: the whole path is signed)
SignedNameWholePath(path) == path[1] \o "/" \o path[Len(path)]

\* main.py:165: filename = path.split("/")[-1]
SignedName(path) == path[Len(path)]

\* main.py:159-170, called when the clock reads t
sign_path(path, t) ==
    IF path = << >> \/ ~StartsWithStatic(path)
    THEN Url(path, 0, "")
    ELSE LET expires == IntTimestamp(t + LinkLifetime)
         IN  Url(path, expires, create_access_signature(SignedName(path), expires))

\* tasks.py:234-236: the file a job writes and the path it stores
AudioName(j) == "audio_" \o ToString(j) \o ".wav"

web_path(j) == <<"static", AudioName(j)>>

\* os.path.exists(os.path.join(AUDIO_DIR, filename))
FileExists(filename) == \E j \in Jobs : files[j] > 0 /\ filename = AudioName(j)

\* main.py:190: the resolved path is inside AUDIO_DIR
InsideAudioDir(filename) == filename # ".."

\* hmac.compare_digest accepts str arguments of ASCII characters only
NonAsciiText == {"<signature with a non-ASCII character>"}

IsAscii(text) == text \notin NonAsciiText

\* (variant: the comparison is the wrong way round)
IsExpiredReversed(t, expires) == t < expires * TicksPerSecond

\* main.py:180: datetime.utcnow().timestamp() > expires
IsExpired(t, expires) == t > expires * TicksPerSecond

\* what the checks of main.py:183-196 give a request that is not expired
AfterExpiry(filename, expires, signature) ==
    IF ~IsAscii(signature) THEN "500 TypeError"
    ELSE IF signature # create_access_signature(filename, expires)
    THEN "403 Invalid signature"
    ELSE IF ~InsideAudioDir(filename) THEN "403 Invalid path"
    ELSE IF ~FileExists(filename) THEN "404 File not found"
    ELSE "200 FileResponse"

\* (variant: the expiry is checked before the missing parameters)
get_audio_file_expiry_first(filename, expires, signature, t) ==
    IF IsExpired(t, expires) THEN "403 Link expired"
    ELSE IF expires = 0 \/ signature = "" THEN "403 Missing signature or expiry"
    ELSE AfterExpiry(filename, expires, signature)

\* main.py:172-196, called when the clock reads t
get_audio_file(filename, expires, signature, t) ==
    IF expires = 0 \/ signature = "" THEN "403 Missing signature or expiry"
    ELSE IF IsExpired(t, expires) THEN "403 Link expired"
    ELSE AfterExpiry(filename, expires, signature)

NoFileResponse == [filename |-> "", expires |-> 0, signature |-> "", at |-> 0,
                   outcome |-> "none"]

(***************************************************************************)
(* get_task_status (main.py:681-730)                                       *)
(***************************************************************************)
TaskIds == 0..MaxTaskIds

\* AsyncResult(task_id): the record of the backend; an id without a record
\* reads PENDING
get_task_meta(i) == IF i \in Jobs THEN meta[i] ELSE NoMeta

Response(i, state, status, result, file_path) ==
    [task_id |-> i, state |-> state, status |-> status, result |-> result,
     file_path |-> file_path]

NoResponse == Response(0, "none", "", "none", NoLink)

\* 'file_path' in result (tasks.py:259-270: only the result of a completed job)
HasFilePath(result) == result = "completed"

\* main.py:687-730: the response built from the record m of task id i
StatusOf(i, m, t) ==
        CASE m.state = "PENDING" ->
               Response(i, m.state, "Task is waiting to start...", "none", NoLink)
          [] m.state = "PROGRESS" -> Response(i, m.state, m.status, "none", NoLink)
          [] m.state = "SUCCESS" ->
               Response(i, m.state, "", m.result,
                        IF HasFilePath(m.result) THEN sign_path(web_path(i), t) ELSE NoLink)
          [] m.state = "FAILURE" -> Response(i, m.state, "info", "none", NoLink)
          [] m.state = "REVOKED" -> Response(i, m.state, "Task was cancelled", "none", NoLink)
          [] OTHER -> Response(i, m.state, "info", "none", NoLink)

get_task_status(i, t) == StatusOf(i, get_task_meta(i), t)

IdleCancel == [pc |-> "idle", seen |-> "none", wrote |-> FALSE]

(***************************************************************************)
(* The conversion of the synthesised samples to 16-bit PCM                 *)
(* (tasks.py:229-232).  A sample is a finite number; the model writes it   *)
(* as an integer multiple of a unit.  The quotient of a sample by the peak *)
(* is at most 1 in magnitude, and exactly 1 or -1 for a sample of peak     *)
(* magnitude, in floating point as in exact arithmetic.                    *)
(***************************************************************************)
MaxLen == 3             \* samples in an array
MaxAmp == 2             \* magnitude of a sample, in units

Amplitudes == (0 - MaxAmp)..MaxAmp

SampleArrays == UNION {[1..n -> Amplitudes] : n \in 0..MaxLen}

Abs(x) == IF x < 0 THEN 0 - x ELSE x

Largest(S) == CHOOSE m \in S : \A x \in S : x <= m

\* (variant: the largest sample, not the largest magnitude)
np_max_signed(a) == Largest({a[i] : i \in DOMAIN a})

\* np.max(np.abs(audio_data)) of an array with at least one sample
np_max_abs(a) == Largest({Abs(a[i]) : i \in DOMAIN a})

PCM_SCALE == 32767

\* .astype(np.int16) of the number n / d, d > 0: the fraction is dropped and
\* 16 bits are kept
Trunc(n, d) == IF n >= 0 THEN n \div d ELSE 0 - ((0 - n) \div d)

Int16(v) == ((v + 32768) % 65536) - 32768

astype_int16(n, d) == Int16(Trunc(n, d))

\* tasks.py:229-232: np.max raises ValueError for an array without samples;
\* otherwise the array is divided by its peak when the peak is not 0, then
\* multiplied by 32767 and converted
to_pcm(a) ==
    IF a = << >>
    THEN [raised |-> "ValueError", pcm |-> << >>]
    ELSE [raised |-> "none",
          pcm |-> [i \in DOMAIN a |->
                     IF np_max_abs(a) > 0
                     THEN astype_int16(a[i] * PCM_SCALE, np_max_abs(a))
                     ELSE astype_int16(a[i] * PCM_SCALE, 1)]]

(***************************************************************************)
(* Model downloads: download_model_task (main.py:296-314) and              *)
(* download_model (main.py:322-346)                                        *)
(***************************************************************************)
MaxInFlight == 2        \* downloads of one repo_id accepted and not finished

ALLOWED_MODELS == {"microsoft/VibeVoice-1.5B", "microsoft/VibeVoice-Realtime-0.5B"}

\* the repo_id a request carries once main.py:325-327 has taken it from the url
RepoIds == ALLOWED_MODELS \cup {"someone/other-model", "no-slash"}

\* main.py:330: repo_id and repo_id.count("/") == 1
ValidFormat(r) == r # "no-slash"

\* main.py:342: the statuses that count as a download in progress
ActiveStatuses == {"pending", "downloading", "starting"}

\* main.py:342: repo_id in download_progress and its status is one of them
DownloadActive(r) == download_progress[r] \in ActiveStatuses

\* main.py:330-346: the answer of download_model for repo_id r
DownloadOutcome(r) ==
    IF ~ValidFormat(r) THEN "400 Invalid model identifier"
    ELSE IF r \notin ALLOWED_MODELS THEN "400 not allowed"
    ELSE IF DownloadActive(r) THEN "400 already in progress"
    ELSE "200 Download started"

\* downloads of r that were accepted and have not finished
InFlight(r) == dl_accepted[r] + dl_running[r]

NoDownloadResponse == [repo_id |-> "none", outcome |-> "none"]

\* no array has gone through the conversion yet
NoWav == [called |-> FALSE, audio_data |-> << >>, pcm |-> << >>, raised |-> "none"]

InitCache ==
    /\ LOADED_MODELS = [w \in Workers |-> EmptyCache]
    /\ VIBEVOICE_AVAILABLE \in BOOLEAN
    /\ nloads = 0
    /\ acq = [c \in Callers |-> IdleCall]
    /\ ncalls = 0

InitJobs ==
    /\ nsubmitted = 0
    /\ request = [j \in Jobs |-> NoRequest]
    /\ pc = [j \in Jobs |-> "unsubmitted"]
    /\ owner = [j \in Jobs |-> 0]
    /\ loaded_obj = [j \in Jobs |-> "none"]
    /\ retval = [j \in Jobs |-> "none"]
    /\ meta = [j \in Jobs |-> NoMeta]
    /\ marker = [j \in Jobs |-> 0]
    /\ inbox = [w \in Workers |-> {}]
    /\ revoked = [w \in Workers |-> {}]
    /\ files = [j \in Jobs |-> 0]
    /\ rows = [j \in Jobs |-> 0]
    /\ persistFailed = [j \in Jobs |-> FALSE]
    /\ markerAtReturn = [j \in Jobs |-> FALSE]
    /\ canc = [j \in Jobs |-> IdleCancel]
    /\ report = [j \in Jobs |-> "none"]
    /\ ran = [j \in Jobs |-> << >>]
    /\ issued = << >>
    /\ status_resp = NoResponse
    /\ now = 0
    /\ nticks = 0
    /\ file_resp = NoFileResponse
    /\ soft_limit = [j \in Jobs |-> FALSE]
    /\ wav = NoWav
    /\ probe_errors = [j \in Jobs |-> FALSE]
    /\ download_progress = [r \in ALLOWED_MODELS |-> "absent"]
    /\ dl_accepted = [r \in ALLOWED_MODELS |-> 0]
    /\ dl_running = [r \in ALLOWED_MODELS |-> 0]
    /\ dl_resp = NoDownloadResponse

Init == InitCache /\ InitJobs

(***************************************************************************)
(* generate_audio_celery (main.py:653-679)                                 *)
(***************************************************************************)

\* apply_async: a fresh task id, the message goes to the broker; nothing is
\* written to the result backend.
\* (variant: the id is not fresh)
ReusedTaskId(n) == 1

\* the id apply_async gives the n-th task it sends (a fresh uuid)
NewTaskId(n) == n

apply_async(m, s) ==
    /\ nsubmitted + 1 \in Jobs
    /\ nsubmitted' = nsubmitted + 1
    /\ issued' = Append(issued, NewTaskId(nsubmitted + 1))
    /\ request' = [request EXCEPT ![NewTaskId(nsubmitted + 1)] =
                                     [model_name |-> m, speaker |-> s]]
    /\ pc' = [pc EXCEPT ![NewTaskId(nsubmitted + 1)] = "queued"]
    /\ UNCHANGED <<downloadVars, apiVars, soft_limit, wav, probe_errors, ran, cacheVars, callVars, owner, loaded_obj, retval, storeVars,
                   revokeVars, artifactVars, cancelVars>>

Submit(m, s) ==
    /\ nsubmitted < MaxJobs
    /\ apply_async(m, s)

\* the same, for as many jobs as there are task ids
SubmitAny(m, s) ==
    /\ nsubmitted < MaxTaskIds
    /\ apply_async(m, s)

(***************************************************************************)
(* The worker: generate_audio_task (tasks.py:14-281), one step per         *)
(* statement that reads or writes shared state                             *)
(***************************************************************************)

\* positions at which the task function is executing
Running == {"L50", "L70", "L72", "L75", "L80", "L83", "generate", "L196", "L199",
            "L215", "L223", "L239", "L256", "L257", "ret"}

\* positions at which the execution of a job is over
Ended == {"done", "terminated", "discarded"}

\* a worker process executes one task at a time (worker_prefetch_multiplier=1)
Idle(w) == \A j \in Jobs : owner[j] = w => pc[j] \in Ended

\* what the worker does with a message it takes from the queue: a revoked id is
\* discarded and marked REVOKED, anything else starts (and is marked STARTED)
PickupTarget(w, j) == IF j \in revoked[w] THEN "discarded" ELSE "L50"

Pickup(w, j) ==
    /\ pc[j] = "queued"
    /\ Idle(w)
    /\ pc' = [pc EXCEPT ![j] = PickupTarget(w, j)]
    /\ owner' = [owner EXCEPT ![j] = w]
    /\ ran' = [ran EXCEPT ![j] = IF PickupTarget(w, j) = "L50" THEN Append(@, w) ELSE @]
    /\ meta' = [meta EXCEPT ![j] = IF PickupTarget(w, j) = "discarded"
                                   THEN mark_as_revoked ELSE mark_as_started]
    /\ UNCHANGED <<downloadVars, apiVars, soft_limit, wav, probe_errors, cacheVars, callVars, nsubmitted, issued, request, loaded_obj,
                   retval, marker,
                   revokeVars, artifactVars, cancelVars>>

\* the task goes on to position p
Goto(j, p) ==
    /\ pc' = [pc EXCEPT ![j] = p]
    /\ UNCHANGED retval

\* the task function returns {'status': status, ...}
Return(j, status) ==
    /\ pc' = [pc EXCEPT ![j] = "ret"]
    /\ retval' = [retval EXCEPT ![j] = status]

\* (variant: the note of line 80 is written at line 72 and that of line 72 at
\* line 80)
NoteAtSwapped(p) == CASE p = "L50" -> "Loading model..."
                      [] p = "L72" -> "Synthesizing audio..."
                      [] p = "L80" -> "Configuring voice"
                      [] p = "L223" -> "Saving audio file..."

\* tasks.py:50, 72, 80, 223: a progress note, then the next statement
NoteAt(p) == CASE p = "L50" -> "Loading model..."
               [] p = "L72" -> "Configuring voice"
               [] p = "L80" -> "Synthesizing audio..."
               [] p = "L223" -> "Saving audio file..."

AfterNote(p) == CASE p = "L50" -> "L70"
                  [] p = "L72" -> "L75"
                  [] p = "L80" -> "L83"
                  [] p = "L223" -> "L239"

UpdateState(j) ==
    /\ pc[j] \in {"L50", "L72", "L80", "L223"}
    /\ meta' = [meta EXCEPT ![j] = update_state(NoteAt(pc[j]))]
    /\ Goto(j, AfterNote(pc[j]))
    /\ UNCHANGED <<downloadVars, apiVars, soft_limit, wav, probe_errors, ran, cacheVars, callVars, nsubmitted, issued, request, owner, loaded_obj, marker,
                   revokeVars, artifactVars, cancelVars>>

\* tasks.py:70: load_model_pipeline(model_name) in the worker's process
LoadModel(j) ==
    /\ pc[j] = "L70"
    /\ \E mps \in BOOLEAN, cuda \in BOOLEAN, ok1 \in BOOLEAN, ok2 \in BOOLEAN :
         LET r == load_model_pipeline(LOADED_MODELS[owner[j]], request[j].model_name,
                                      VIBEVOICE_AVAILABLE, get_compute_device(mps, cuda),
                                      ok1, ok2, nloads + 1)
         IN  /\ LOADED_MODELS' = [LOADED_MODELS EXCEPT ![owner[j]] = r.cache]
             /\ nloads' = IF r.loaded THEN nloads + 1 ELSE nloads
             /\ IF r.raised
                THEN /\ Return(j, "error")
                     /\ UNCHANGED loaded_obj
                ELSE /\ Goto(j, "L72")
                     /\ loaded_obj' = [loaded_obj EXCEPT ![j] = r.entry.type]
    /\ UNCHANGED <<downloadVars, apiVars, soft_limit, wav, probe_errors, ran, VIBEVOICE_AVAILABLE, callVars, nsubmitted, issued, request, owner, storeVars,
                   revokeVars, artifactVars, cancelVars>>

\* tasks.py:75-77: b'REVOKED' in the bytes of the task's own meta record, whose
\* status text carries the speaker's name (tasks.py:72)
MetaHasREVOKED(j) ==
    \/ meta[j].state = "REVOKED"
    \/ (meta[j].status = "Configuring voice" /\ request[j].speaker = "REVOKED")

CheckRevokedMeta(j) ==
    /\ pc[j] = "L75"
    /\ IF MetaHasREVOKED(j) THEN Return(j, "cancelled") ELSE Goto(j, "L80")
    /\ UNCHANGED <<downloadVars, apiVars, soft_limit, wav, probe_errors, ran, cacheVars, callVars, nsubmitted, issued, request, owner, loaded_obj, storeVars,
                   revokeVars, artifactVars, cancelVars>>

\* tasks.py:92
is_realtime_model(j) == is_realtime(request[j].model_name)

\* tasks.py:83-109, 140-157: the voice is validated and looked up; TRUE when
\* the code raises ValueError
VoiceRejected(j) ==
    /\ loaded_obj[j] = "vibevoice"
    /\ \/ request[j].speaker = "traversal"
       \/ request[j].speaker = "missing"
       \/ (is_realtime_model(j) /\ request[j].speaker = "none")

PrepareVoice(j) ==
    /\ pc[j] = "L83"
    /\ IF VoiceRejected(j) THEN Return(j, "error") ELSE Goto(j, "generate")
    /\ UNCHANGED <<downloadVars, apiVars, soft_limit, wav, probe_errors, ran, cacheVars, callVars, nsubmitted, issued, request, owner, loaded_obj, storeVars,
                   revokeVars, artifactVars, cancelVars>>


\* (variant: a store that does not answer counts as a cancellation)
stop_check_fn_error_stops(j, ok) == ~ok \/ marker[j] > 0

\* tasks.py:34-46: the probe handed to generate(); ok: the store answers
stop_check_fn(j, ok) == ok /\ marker[j] > 0

\* tasks.py:137 passes stop_check_fn; tasks.py:178-193 and tasks.py:210 do not
PassesProbe(j) == loaded_obj[j] = "vibevoice" /\ is_realtime_model(j)

\* where the task goes on when the synthesis call is over
AfterGenerate(j) == IF loaded_obj[j] = "vibevoice" THEN "L196" ELSE "L215"

\* tasks.py:129-138: the streaming generate() polls the probe and stops when it
\* answers True
StopCheck(j) ==
    /\ pc[j] = "generate"
    /\ PassesProbe(j)
    /\ \E ok \in BOOLEAN :
         /\ probe_errors' = [probe_errors EXCEPT ![j] = @ \/ ~ok]
         /\ IF stop_check_fn(j, ok)
            THEN /\ Goto(j, AfterGenerate(j))
                 /\ markerAtReturn' = [markerAtReturn EXCEPT ![j] = marker[j] > 0]
            ELSE UNCHANGED <<pc, retval, markerAtReturn>>
    /\ UNCHANGED <<downloadVars, apiVars, soft_limit, wav, ran, cacheVars, callVars, nsubmitted, issued, request, owner, loaded_obj, storeVars,
                   revokeVars, files, rows, persistFailed, cancelVars>>

\* tasks.py:129, 178, 210: the synthesis call returns
SynthReturn(j) ==
    /\ pc[j] = "generate"
    /\ Goto(j, AfterGenerate(j))
    /\ markerAtReturn' = [markerAtReturn EXCEPT ![j] = marker[j] > 0]
    /\ UNCHANGED <<downloadVars, apiVars, soft_limit, wav, probe_errors, ran, cacheVars, callVars, nsubmitted, issued, request, owner, loaded_obj, storeVars,
                   revokeVars, files, rows, persistFailed, cancelVars>>

\* tasks.py:196-197: the marker of the job's own id
CheckMarker(j) ==
    /\ pc[j] = "L196"
    /\ IF marker[j] > 0 THEN Return(j, "cancelled") ELSE Goto(j, "L199")
    /\ UNCHANGED <<downloadVars, apiVars, soft_limit, wav, probe_errors, ran, cacheVars, callVars, nsubmitted, issued, request, owner, loaded_obj, storeVars,
                   revokeVars, artifactVars, cancelVars>>

\* tasks.py:199-206
CheckOutputs(j) ==
    /\ pc[j] = "L199"
    /\ \E speech \in BOOLEAN :
         IF speech THEN Goto(j, "L215") ELSE Return(j, "error")
    /\ UNCHANGED <<downloadVars, apiVars, soft_limit, wav, probe_errors, ran, cacheVars, callVars, nsubmitted, issued, request, owner, loaded_obj, storeVars,
                   revokeVars, artifactVars, cancelVars>>

\* tasks.py:215-221: AsyncResult(id).state == 'REVOKED'; errors are swallowed
CheckRevokedState(j) ==
    /\ pc[j] = "L215"
    /\ \E ok \in BOOLEAN :
         IF ok /\ meta[j].state = "REVOKED"
         THEN Return(j, "cancelled") ELSE Goto(j, "L223")
    /\ UNCHANGED <<downloadVars, apiVars, soft_limit, wav, probe_errors, ran, cacheVars, callVars, nsubmitted, issued, request, owner, loaded_obj, storeVars,
                   revokeVars, artifactVars, cancelVars>>

\* tasks.py:225-239: scipy.io.wavfile.write under a fresh name
WriteFile(j) ==
    /\ pc[j] = "L239"
    /\ files' = [files EXCEPT ![j] = @ + 1]
    /\ Goto(j, "L256")
    /\ UNCHANGED <<downloadVars, apiVars, soft_limit, wav, probe_errors, ran, cacheVars, callVars, nsubmitted, issued, request, owner, loaded_obj, storeVars,
                   revokeVars, rows, persistFailed, markerAtReturn, cancelVars>>

\* tasks.py:242-256: db.add, db.commit
Commit(j) ==
    /\ pc[j] = "L256"
    /\ \E ok \in BOOLEAN :
         IF ok
         THEN /\ rows' = [rows EXCEPT ![j] = @ + 1]
              /\ Goto(j, "L257")
              /\ UNCHANGED persistFailed
         ELSE /\ persistFailed' = [persistFailed EXCEPT ![j] = TRUE]
              /\ Return(j, "error")
              /\ UNCHANGED rows
    /\ UNCHANGED <<downloadVars, apiVars, soft_limit, wav, probe_errors, ran, cacheVars, callVars, nsubmitted, issued, request, owner, loaded_obj, storeVars,
                   revokeVars, files, markerAtReturn, cancelVars>>

\* tasks.py:257-274: db.refresh, the result dict, return result
Refresh(j) ==
    /\ pc[j] = "L257"
    /\ \E ok \in BOOLEAN :
         IF ok
         THEN /\ Return(j, "completed")
              /\ UNCHANGED persistFailed
         ELSE /\ persistFailed' = [persistFailed EXCEPT ![j] = TRUE]
              /\ Return(j, "error")
    /\ UNCHANGED <<downloadVars, apiVars, soft_limit, wav, probe_errors, ran, cacheVars, callVars, nsubmitted, issued, request, owner, loaded_obj, storeVars,
                   revokeVars, files, rows, markerAtReturn, cancelVars>>

\* tasks.py:278-281: any exception raised inside the try block (a store that
\* does not answer update_state, get or exists, a voice file that does not
\* load, generate() failing, a disk that refuses the file)
RaisePcs == {"L50", "L72", "L75", "L80", "L83", "generate", "L196", "L223", "L239"}

TaskRaise(j) ==
    /\ pc[j] \in RaisePcs
    /\ Return(j, "error")
    /\ UNCHANGED <<downloadVars, apiVars, soft_limit, wav, probe_errors, ran, cacheVars, callVars, nsubmitted, issued, request, owner, loaded_obj, storeVars,
                   revokeVars, artifactVars, cancelVars>>

\* tasks.py:29-32: the imports at the head of the function body stand before
\* the try of line 48; an import that fails raises out of the function and
\* Celery marks the task failed
ImportRaise(j) ==
    /\ pc[j] = "L50"
    /\ meta[j] = mark_as_started
    /\ meta' = [meta EXCEPT ![j] = mark_as_failure]
    /\ pc' = [pc EXCEPT ![j] = "done"]
    /\ UNCHANGED <<downloadVars, apiVars, soft_limit, wav, probe_errors, ran, cacheVars, callVars, nsubmitted, issued, request, owner, loaded_obj, retval,
                   marker, revokeVars, artifactVars, cancelVars>>

\* Where SoftTimeLimitExceeded (a subclass of Exception) ends up when it is
\* raised at the task's position:
\*   "timeout"  tasks.py:276-277 catches it;
\*   "raised"   in the imports of tasks.py:29-32, before the try: it leaves the
\*              function;
\*   "error"    inside the VibeVoice branch of load_model_pipeline, whose
\*              handler (main.py:613-620) raises Exception("Failed to load
\*              VibeVoice model") in its place, caught at tasks.py:278;
\*   "passed"   inside the try of tasks.py:216-221, whose bare except passes.
SoftLimitOutcomes(j) ==
    {"timeout"}
    \cup (IF pc[j] = "L50" /\ meta[j] = mark_as_started THEN {"raised"} ELSE {})
    \cup (IF pc[j] = "L70" /\ HasVibeVoice(request[j].model_name) /\ VIBEVOICE_AVAILABLE
          THEN {"error"} ELSE {})
    \cup (IF pc[j] = "L215" THEN {"passed"} ELSE {})

\* the worker raises SoftTimeLimitExceeded in the process executing the task
SoftTimeLimit(j) ==
    /\ pc[j] \in Running \ {"ret"}
    /\ ~soft_limit[j]
    /\ soft_limit' = [soft_limit EXCEPT ![j] = TRUE]
    /\ \E o \in SoftLimitOutcomes(j) :
         CASE o = "timeout" -> Return(j, "timeout") /\ UNCHANGED meta
           [] o = "error" -> Return(j, "error") /\ UNCHANGED meta
           [] o = "passed" -> Goto(j, "L223") /\ UNCHANGED meta
           [] o = "raised" -> /\ meta' = [meta EXCEPT ![j] = mark_as_failure]
                              /\ pc' = [pc EXCEPT ![j] = "done"]
                              /\ UNCHANGED retval
    /\ UNCHANGED <<downloadVars, apiVars, wav, probe_errors, ran, cacheVars, callVars, nsubmitted, issued, request, owner,
                   loaded_obj, marker, revokeVars, artifactVars, cancelVars>>

\* the task function has returned: Celery stores the returned dict as the
\* result of a successful task
TaskReturn(j) ==
    /\ pc[j] = "ret"
    /\ meta' = [meta EXCEPT ![j] = mark_as_done(retval[j])]
    /\ pc' = [pc EXCEPT ![j] = "done"]
    /\ UNCHANGED <<downloadVars, apiVars, soft_limit, wav, probe_errors, ran, cacheVars, callVars, nsubmitted, issued, request, owner, loaded_obj, retval,
                   marker, revokeVars, artifactVars, cancelVars>>

\* the same, with a result backend that does not take the write
TaskReturnStoreFails(j) ==
    /\ pc[j] = "ret"
    /\ pc' = [pc EXCEPT ![j] = "done"]
    /\ persistFailed' = [persistFailed EXCEPT ![j] = files[j] > 0]
    /\ UNCHANGED <<downloadVars, apiVars, soft_limit, wav, probe_errors, ran, cacheVars, callVars, nsubmitted, issued, request, owner, loaded_obj, retval,
                   storeVars, revokeVars, files, rows, markerAtReturn, cancelVars>>

(***************************************************************************)
(* cancel_task (main.py:732-761) and the revoke it broadcasts              *)
(***************************************************************************)
MARKER_TTL == 3600

\* (variant: REVOKED is not in the list)
FinalStatesNoRevoked == {"SUCCESS", "FAILURE"}

\* main.py:741: the states in which cancel_task does nothing
FinalStates == {"SUCCESS", "FAILURE", "REVOKED"}

\* main.py:737-741, 756-761: the state is read; a final state is reported back
CancelBegin(j) ==
    /\ pc[j] # "unsubmitted"
    /\ canc[j].pc = "idle"
    /\ IF meta[j].state \in FinalStates
       THEN /\ canc' = [canc EXCEPT ![j] = [IdleCancel EXCEPT !.seen = meta[j].state]]
            /\ report' = [report EXCEPT ![j] = meta[j].state]
       ELSE /\ canc' = [canc EXCEPT ![j] = [IdleCancel EXCEPT !.pc = "setex",
                                                          !.seen = meta[j].state]]
            /\ UNCHANGED report
    /\ UNCHANGED <<downloadVars, apiVars, soft_limit, wav, probe_errors, ran, cacheVars, callVars, nsubmitted, issued, request, taskVars, storeVars,
                   revokeVars, artifactVars>>

\* (variant: an exception of setex ends the handler)
AfterSetexAbort(ok) == IF ok THEN "revoke" ELSE "idle"

\* main.py:744-747: what follows the setex, whether or not it raised
AfterSetex(ok) == "revoke"

\* main.py:745: setex(f"task_cancelled:{task_id}", 3600, "1")
CancelSetex(j) ==
    /\ canc[j].pc = "setex"
    /\ \E ok \in BOOLEAN :
         /\ marker' = [marker EXCEPT ![j] = IF ok THEN MARKER_TTL ELSE @]
         /\ canc' = [canc EXCEPT ![j].pc = AfterSetex(ok), ![j].wrote = ok]
    /\ UNCHANGED <<downloadVars, apiVars, soft_limit, wav, probe_errors, ran, cacheVars, callVars, nsubmitted, issued, request, taskVars, meta,
                   revokeVars, artifactVars, report>>

\* main.py:750-755: revoke(task_id, terminate=True, signal='SIGTERM') reaches
\* every worker's control inbox
CancelRevoke(j) ==
    /\ canc[j].pc = "revoke"
    /\ inbox' = [w \in Workers |-> inbox[w] \cup {j}]
    /\ canc' = [canc EXCEPT ![j].pc = "idle"]
    /\ report' = [report EXCEPT ![j] = "cancelled"]
    /\ UNCHANGED <<downloadVars, apiVars, soft_limit, wav, probe_errors, ran, cacheVars, callVars, nsubmitted, issued, request, taskVars, storeVars,
                   revoked, artifactVars>>

\* (variant: a task that has returned is terminated and marked as well)
TerminatesFinished(w, j) == owner[j] = w /\ pc[j] \in Running \cup {"done"}

\* (variant: revoke without terminate=True)
NeverTerminates(w, j) == FALSE

\* main.py:750 terminate=True: the process executing the task is killed
Terminates(w, j) == owner[j] = w /\ pc[j] \in Running

\* a worker processes a revoke request: it remembers the id, and a task of that
\* id that is executing is terminated and marked REVOKED
RevokeReceive(w, j) ==
    /\ j \in inbox[w]
    /\ inbox' = [inbox EXCEPT ![w] = @ \ {j}]
    /\ revoked' = [revoked EXCEPT ![w] = @ \cup {j}]
    /\ IF Terminates(w, j)
       THEN /\ pc' = [pc EXCEPT ![j] = "terminated"]
            /\ meta' = [meta EXCEPT ![j] = mark_as_revoked]
       ELSE UNCHANGED <<pc, meta>>
    /\ UNCHANGED <<downloadVars, apiVars, soft_limit, wav, probe_errors, ran, cacheVars, callVars, nsubmitted, issued, request, owner, loaded_obj, retval,
                   marker, artifactVars, cancelVars>>

\* (variant: the key is stored without a lifetime)
ExpiresNever(ttl) == FALSE

\* main.py:745: a key stored by setex with a lifetime of ttl seconds, ttl > 0,
\* is removed by the store when the lifetime is over
Expires(ttl) == ttl > 0

\* the key task_cancelled:<id> reaches the end of its lifetime
MarkerExpire(j) ==
    /\ marker[j] > 0
    /\ Expires(marker[j])
    /\ marker' = [marker EXCEPT ![j] = 0]
    /\ UNCHANGED <<downloadVars, apiVars, soft_limit, wav, probe_errors, ran, cacheVars, callVars, nsubmitted, issued, request, taskVars, meta,
                   revokeVars, artifactVars, cancelVars>>

(***************************************************************************)
(* Requests of clients: the status of a task id, an audio file; the clock  *)
(***************************************************************************)
GetStatus(i) ==
    /\ status_resp' = get_task_status(i, now)
    /\ UNCHANGED <<downloadVars, now, nticks, file_resp, soft_limit, wav, probe_errors, ran, cacheVars, callVars, nsubmitted, issued,
                   request, taskVars, storeVars, revokeVars, artifactVars, cancelVars>>

\* the steps the clock takes: one tick, or the lifetime of a link
TickSteps == {1, LinkLifetime}

Tick(d) ==
    /\ nticks < MaxTicks
    /\ now' = now + d
    /\ nticks' = nticks + 1
    /\ UNCHANGED <<downloadVars, status_resp, file_resp, soft_limit, wav, probe_errors, ran, cacheVars, callVars, nsubmitted, issued,
                   request, taskVars, storeVars, revokeVars, artifactVars, cancelVars>>

\* what a client may send, starting from the link the last status response
\* carried: its parts, other file names, an expiry of 0, of the past or later
\* than signed, and signatures that are empty, not ASCII, made for another
\* (filename, expiry), or made with another key
\* main.py:172: the route "/static/{filename}" takes the last segment of the path
RouteFilename(path) == path[Len(path)]

LinkName(link) == IF link.path = << >> THEN "" ELSE RouteFilename(link.path)

RequestNames(link) == {LinkName(link), AudioName(1), "audio_0.wav", ".."}

RequestExpiries(link) == {0, 1, link.expires, link.expires + 1}

RequestSignatures(link) ==
    {"", link.signature, "0123abcd", hmac_hexdigest("guess", LinkName(link) \o ":0")}
    \cup NonAsciiText
    \cup {create_access_signature(f, e) : f \in RequestNames(link),
                                          e \in RequestExpiries(link)}

\* the signatures of the requests the model sends: none, the link's, one made
\* for the request's own file name and expiry, one that is not ASCII
SentSignatures(link, f, e) ==
    {"", link.signature, create_access_signature(f, e)} \cup NonAsciiText

GetAudioFile(filename, expires, signature) ==
    /\ file_resp' = [filename |-> filename, expires |-> expires, signature |-> signature,
                     at |-> now,
                     outcome |-> get_audio_file(filename, expires, signature, now)]
    /\ UNCHANGED <<downloadVars, status_resp, now, nticks, soft_limit, wav, probe_errors, ran, cacheVars, callVars, nsubmitted, issued,
                   request, taskVars, storeVars, revokeVars, artifactVars, cancelVars>>

WorkerStep(j) ==
    \/ UpdateState(j)
    \/ LoadModel(j)
    \/ CheckRevokedMeta(j)
    \/ PrepareVoice(j)
    \/ StopCheck(j)
    \/ CheckMarker(j)
    \/ CheckOutputs(j)
    \/ CheckRevokedState(j)
    \/ WriteFile(j)
    \/ Commit(j)
    \/ Refresh(j)
    \/ TaskReturn(j)

CancelStep(j) == CancelSetex(j) \/ CancelRevoke(j)

Next ==
    \/ \E m \in ModelNames, s \in Speakers : Submit(m, s)
    \/ \E w \in Workers, j \in Jobs : Pickup(w, j)
    \/ \E j \in Jobs : UpdateState(j)
    \/ \E j \in Jobs : LoadModel(j)
    \/ \E j \in Jobs : CheckRevokedMeta(j)
    \/ \E j \in Jobs : PrepareVoice(j)
    \/ \E j \in Jobs : StopCheck(j)
    \/ \E j \in Jobs : SynthReturn(j)
    \/ \E j \in Jobs : CheckMarker(j)
    \/ \E j \in Jobs : CheckOutputs(j)
    \/ \E j \in Jobs : CheckRevokedState(j)
    \/ \E j \in Jobs : WriteFile(j)
    \/ \E j \in Jobs : Commit(j)
    \/ \E j \in Jobs : Refresh(j)
    \/ \E j \in Jobs : TaskRaise(j)
    \/ \E j \in Jobs : ImportRaise(j)
    \/ \E j \in Jobs : TaskReturn(j)
    \/ \E j \in Jobs : CancelBegin(j)
    \/ \E j \in Jobs : CancelSetex(j)
    \/ \E j \in Jobs : CancelRevoke(j)
    \/ \E w \in Workers, j \in Jobs : RevokeReceive(w, j)
    \/ \E j \in Jobs : MarkerExpire(j)

Spec == Init /\ [][Next]_vars

\* the same system with a result backend that may not take the final write
NextFault == Next \/ \E j \in Jobs : TaskReturnStoreFails(j)

FaultSpec == Init /\ [][NextFault]_vars

(***************************************************************************)
(* The conversion to PCM on its own: one array of samples, any of them,    *)
(* goes through it                                                         *)
(***************************************************************************)
Normalize(a) ==
    /\ ~wav.called
    /\ wav' = [called |-> TRUE, audio_data |-> a, pcm |-> to_pcm(a).pcm,
               raised |-> to_pcm(a).raised]
    /\ UNCHANGED <<downloadVars, cacheVars, callVars, nsubmitted, issued, request, taskVars, storeVars,
                   revokeVars, artifactVars, cancelVars, ran, apiVars, soft_limit,
                   probe_errors>>

NextPcm == \E a \in SampleArrays : Normalize(a)

PcmSpec == Init /\ [][NextPcm]_vars

(***************************************************************************)
(* Downloads on their own: requests for any repo_id and the background     *)
(* tasks of the accepted ones                                              *)
(***************************************************************************)
downloadRest == <<cacheVars, callVars, nsubmitted, issued, request, taskVars, storeVars,
                  revokeVars, artifactVars, cancelVars, ran, apiVars, soft_limit, wav,
                  probe_errors>>

\* main.py:322-346: the request is answered; an accepted one leaves a
\* background task that starts after the response (background_tasks.add_task)
\* and writes nothing to download_progress
DownloadModel(r) ==
    /\ r \in ALLOWED_MODELS => InFlight(r) < MaxInFlight
    /\ dl_resp' = [repo_id |-> r, outcome |-> DownloadOutcome(r)]
    /\ dl_accepted' = IF DownloadOutcome(r) = "200 Download started"
                      THEN [dl_accepted EXCEPT ![r] = @ + 1]
                      ELSE dl_accepted
    /\ UNCHANGED <<download_progress, dl_running, downloadRest>>

\* main.py:297-299: the background task starts
DownloadTaskStart(r) ==
    /\ dl_accepted[r] > 0
    /\ dl_accepted' = [dl_accepted EXCEPT ![r] = @ - 1]
    /\ dl_running' = [dl_running EXCEPT ![r] = @ + 1]
    /\ download_progress' = [download_progress EXCEPT ![r] = "starting"]
    /\ UNCHANGED <<dl_resp, downloadRest>>

\* main.py:284-293: snapshot_download reports progress
TqdmUpdate(r) ==
    /\ dl_running[r] > 0
    /\ download_progress' = [download_progress EXCEPT ![r] = "downloading"]
    /\ UNCHANGED <<dl_accepted, dl_running, dl_resp, downloadRest>>

\* main.py:310-314: snapshot_download returns, or raises
DownloadTaskEnd(r, ok) ==
    /\ dl_running[r] > 0
    /\ dl_running' = [dl_running EXCEPT ![r] = @ - 1]
    /\ download_progress' = [download_progress EXCEPT
                                ![r] = IF ok THEN "completed" ELSE "error"]
    /\ UNCHANGED <<dl_accepted, dl_resp, downloadRest>>

NextDownload ==
    \/ \E r \in RepoIds : DownloadModel(r)
    \/ \E r \in ALLOWED_MODELS : DownloadTaskStart(r)
    \/ \E r \in ALLOWED_MODELS : TqdmUpdate(r)
    \/ \E r \in ALLOWED_MODELS, ok \in BOOLEAN : DownloadTaskEnd(r, ok)

DownloadSpec == Init /\ [][NextDownload]_vars

\* the same system with workers that run under a soft time limit
NextTimeLimit == Next \/ \E j \in Jobs : SoftTimeLimit(j)

TimeLimitSpec == Init /\ [][NextTimeLimit]_vars

(***************************************************************************)
(* Loss of a worker under late acknowledgement (celery_app.py:20): the     *)
(* message of a task is acknowledged only when the task is over, so the    *)
(* broker still holds the message of a task whose worker is gone and hands *)
(* it out again                                                            *)
(***************************************************************************)

\* the task a worker process is executing
Executing(w, j) == owner[j] = w /\ pc[j] \in Running

\* The worker process w is killed (or its host is lost) while it executes a
\* task: nothing more is written for that execution, the process memory
\* (model cache, revoke requests) is gone, and the unacknowledged message
\* returns to the queue.  A restarted worker may learn the revoked ids again
\* from its peers.
WorkerLost(w) ==
    /\ \E j \in Jobs : Executing(w, j) /\ Len(ran[j]) < MaxRuns
    /\ pc' = [j \in Jobs |-> IF Executing(w, j) THEN "queued" ELSE pc[j]]
    /\ owner' = [j \in Jobs |-> IF Executing(w, j) THEN 0 ELSE owner[j]]
    /\ loaded_obj' = [j \in Jobs |-> IF Executing(w, j) THEN "none" ELSE loaded_obj[j]]
    /\ retval' = [j \in Jobs |-> IF Executing(w, j) THEN "none" ELSE retval[j]]
    /\ LOADED_MODELS' = [LOADED_MODELS EXCEPT ![w] = EmptyCache]
    /\ inbox' = [inbox EXCEPT ![w] = {}]
    /\ \E synced \in BOOLEAN :
         revoked' = [revoked EXCEPT ![w] = IF synced THEN @ \cup inbox[w] ELSE {}]
    /\ UNCHANGED <<downloadVars, apiVars, soft_limit, wav, probe_errors, ran, VIBEVOICE_AVAILABLE, nloads, callVars, nsubmitted, issued, request,
                   storeVars, artifactVars, cancelVars>>

NextLoss == Next \/ \E w \in Workers : WorkerLost(w)

LossSpec == Init /\ [][NextLoss]_vars

(***************************************************************************)
(* The API front: submissions up to the number of task ids, status         *)
(* requests for any id, and workers that start tasks and report on them    *)
(***************************************************************************)
NextFront ==
    \/ \E m \in ModelNames, s \in Speakers : SubmitAny(m, s)
    \/ \E w \in Workers, j \in Jobs : Pickup(w, j)
    \/ \E j \in Jobs : UpdateState(j)
    \/ \E j \in Jobs : TaskRaise(j)
    \/ \E j \in Jobs : TaskReturn(j)
    \/ \E i \in TaskIds : GetStatus(i)

FrontSpec == Init /\ [][NextFront]_vars

(***************************************************************************)
(* Links: a job of the pipeline family runs to its end, clients ask for    *)
(* its status and for audio files while the clock advances                 *)
(***************************************************************************)
NextLink ==
    \/ Submit("speecht5_tts", "none")
    \/ \E w \in Workers, j \in Jobs : Pickup(w, j)
    \/ \E j \in Jobs : UpdateState(j)
    \/ \E j \in Jobs : LoadModel(j)
    \/ \E j \in Jobs : CheckRevokedMeta(j)
    \/ \E j \in Jobs : PrepareVoice(j)
    \/ \E j \in Jobs : SynthReturn(j)
    \/ \E j \in Jobs : CheckRevokedState(j)
    \/ \E j \in Jobs : WriteFile(j)
    \/ \E j \in Jobs : Commit(j)
    \/ \E j \in Jobs : Refresh(j)
    \/ \E j \in Jobs : TaskReturn(j)
    \/ \E i \in TaskIds : GetStatus(i)
    \/ \E d \in TickSteps : Tick(d)
    \/ \E f \in RequestNames(status_resp.file_path),
          e \in RequestExpiries(status_resp.file_path) :
          \E s \in SentSignatures(status_resp.file_path, f, e) : GetAudioFile(f, e, s)

LinkSpec == Init /\ [][NextLink]_vars

(***************************************************************************)
(* The cache on its own: calls one after the other, and calls from threads *)
(* of one process that overlap                                             *)
(***************************************************************************)
NextCacheSeq ==
    \/ \E c \in Callers, m \in ModelNames : AcqCallSeq(c, m)
    \/ \E c \in Callers : AcqCheck(c)
    \/ \E c \in Callers : AcqEvict(c)
    \/ \E c \in Callers : AcqLoad(c)
    \/ \E c \in Callers : AcqInsert(c)

NextCacheConc ==
    \/ \E c \in Callers, m \in ModelNames : AcqCallConc(c, m)
    \/ \E c \in Callers : AcqCheck(c)
    \/ \E c \in Callers : AcqEvict(c)
    \/ \E c \in Callers : AcqLoad(c)
    \/ \E c \in Callers : AcqInsert(c)

CacheSpec == Init /\ [][NextCacheSeq]_vars

CacheConcSpec == Init /\ [][NextCacheConc]_vars

(***************************************************************************)
(* C1: in one process, after any sequence of load_model_pipeline calls     *)
(* made one after the other, whether they succeed or fail, the cache holds *)
(* at most one entry; while a call loads or inserts model B the cache is   *)
(* empty, so a resident A has been removed before B's load starts and B is *)
(* never in the cache together with A.                                     *)
(***************************************************************************)
AtMostOneResident ==
    /\ Cardinality(DOMAIN LOADED_MODELS[CacheProc]) <= 1
    /\ \A c \in Callers :
          acq[c].pc \in {"load", "insert"} => LOADED_MODELS[CacheProc] = EmptyCache

\* a call for B has evicted a resident A and B is now the only resident model
EvictedThenLoaded ==
    \E c \in Callers :
        /\ acq[c].pc = "idle" /\ acq[c].ret = "loaded"
        /\ acq[c].evicted # {} /\ ~(acq[c].name \in acq[c].evicted)
        /\ DOMAIN LOADED_MODELS[CacheProc] = {acq[c].name}

(***************************************************************************)
(* C2: when load_model_pipeline calls for different models overlap in one  *)
(* process, no load starts while another is in flight and the cache never  *)
(* holds two entries.                                                      *)
(***************************************************************************)
LoadsSerialized ==
    /\ \A c, d \in Callers :
          (c # d /\ acq[c].pc \in {"load", "insert"} /\ acq[d].pc \in {"load", "insert"})
          => acq[c].name = acq[d].name
    /\ Cardinality(DOMAIN LOADED_MODELS[CacheProc]) <= 1

(***************************************************************************)
(* Outcomes of a job as a client sees them through get_task_status         *)
(***************************************************************************)
Terminal(j) == meta[j].state \in TerminalStates

Completed(j) == meta[j].state = "SUCCESS" /\ meta[j].result = "completed"

Failed(j) == meta[j].state = "SUCCESS" /\ meta[j].result = "error"

Cancelled(j) ==
    \/ meta[j].state = "REVOKED"
    \/ (meta[j].state = "SUCCESS" /\ meta[j].result = "cancelled")

(***************************************************************************)
(* C3 as amended: the states stored for a job id only move forward in the  *)
(* order PENDING, STARTED, PROGRESS (any number of notes), one terminal    *)
(* state; once a terminal state is stored, no later write changes the      *)
(* job's record, under any interleaving of the worker with cancel requests *)
(* and forceful termination.                                               *)
(***************************************************************************)
Rank(st) == CASE st = "PENDING" -> 0
              [] st = "STARTED" -> 1
              [] st = "PROGRESS" -> 2
              [] OTHER -> 3

StatesMonotonic ==
    [][\A j \in Jobs :
          /\ Rank(meta'[j].state) >= Rank(meta[j].state)
          /\ (meta[j].state \in {"STARTED"} => meta'[j].state # "PENDING")
          /\ (meta[j].state \in TerminalStates => meta'[j] = meta[j])]_vars

\* a job was terminated by a revoke, and a cancel_task handler has run after it
TerminalAfterCancel ==
    \E j \in Jobs : /\ pc[j] = "terminated" /\ meta[j].state = "REVOKED"
                    /\ report[j] = "REVOKED"

\* C3 as stated: the stored states are PENDING, then PROGRESS notes, then one
\* terminal state, and nothing else.
StatesPendingProgressTerminal ==
    [][\A j \in Jobs :
          /\ meta'[j].state \in {"PENDING", "PROGRESS"} \cup TerminalStates
          /\ Rank(meta'[j].state) >= Rank(meta[j].state)
          /\ (meta[j].state \in TerminalStates => meta'[j] = meta[j])]_vars

(***************************************************************************)
(* C4: a worker that reaches the checkpoint before the synthesis call      *)
(* (tasks.py:75) while the cancellation marker of its job is present does  *)
(* not go on to the synthesis call.                                        *)
(***************************************************************************)
CheckpointHonoursMarker ==
    [][\A j \in Jobs :
          (pc[j] = "L75" /\ marker[j] > 0 /\ pc'[j] # "L75")
          => pc'[j] \in {"ret", "terminated"}]_vars

(***************************************************************************)
(* C5: when the marker of job X is present as X's synthesis call returns,  *)
(* for every model family, the output is discarded: no audio file, no      *)
(* AudioHistory row, and X does not end COMPLETED.                         *)
(***************************************************************************)
OutputDiscardedWhenCancelled ==
    \A j \in Jobs :
        markerAtReturn[j] => /\ files[j] = 0
                             /\ rows[j] = 0
                             /\ ~Completed(j)

(***************************************************************************)
(* C6: cancel_task on a job that is not terminal writes the marker of that *)
(* job with the bounded lifetime of 3600 s and then broadcasts the revoke  *)
(* (terminate=True) for the same id; the revoke is issued also when the    *)
(* marker write failed.                                                    *)
(***************************************************************************)
CancelMarksAndRevokes ==
    [][\A j \in Jobs :
          /\ (CancelBegin(j) /\ ~Terminal(j)) => canc'[j].pc = "setex"
          /\ (canc[j].pc = "setex" /\ canc'[j] # canc[j])
             => /\ canc'[j].pc = "revoke"
                /\ canc'[j].wrote => (marker'[j] = MARKER_TTL /\ marker'[j] \in 1..3600)
          /\ (canc[j].pc = "revoke" /\ canc'[j] # canc[j])
             => /\ \A w \in Workers : j \in inbox'[w]
                /\ report'[j] = "cancelled"]_vars

\* a handler has finished on a job that was not terminal: its marker write
\* failed and its revoke is in a worker's inbox
RevokedWithoutMarker ==
    \E j \in Jobs, w \in Workers :
        /\ canc[j].pc = "idle" /\ canc[j].seen \in {"PENDING", "STARTED", "PROGRESS"}
        /\ ~canc[j].wrote /\ marker[j] = 0
        /\ j \in inbox[w] /\ report[j] = "cancelled"

CancelRequested(j) ==
    \/ canc[j].pc \in {"setex", "revoke"}
    \/ \E w \in Workers : j \in inbox[w] \cup revoked[w]

Fairness ==
    /\ \A j \in Jobs : WF_vars(WorkerStep(j))
    /\ \A j \in Jobs : WF_vars(SynthReturn(j) /\ ~CancelRequested(j))
    /\ \A j \in Jobs : WF_vars(CancelStep(j))
    /\ \A w \in Workers, j \in Jobs : WF_vars(Pickup(w, j))
    /\ \A w \in Workers, j \in Jobs : WF_vars(RevokeReceive(w, j))

LiveSpec == Init /\ [][Next]_vars /\ Fairness

\* time passes: a key that has a lifetime reaches its end
ExpiryFairness == \A j \in Jobs : WF_vars(MarkerExpire(j))

ExpirySpec == Init /\ [][Next]_vars /\ Fairness /\ ExpiryFairness

CancelLeadsToTerminal ==
    \A j \in Jobs : (canc[j].pc = "setex") ~> Terminal(j)

\* a job without a probe was terminated in or after its synthesis call
TerminatedByRevoke ==
    \E j \in Jobs : /\ pc[j] = "terminated" /\ meta[j].state = "REVOKED"
                    /\ ~PassesProbe(j) /\ loaded_obj[j] # "none"
                    /\ report[j] = "cancelled"

(***************************************************************************)
(* C9: for a job whose execution is over, an AudioHistory row of the job   *)
(* exists if and only if the job ended COMPLETED, and a job never has more *)
(* than one row.                                                           *)
(***************************************************************************)
RowIffCompleted ==
    \A j \in Jobs :
        /\ rows[j] <= 1
        /\ pc[j] \in Ended => (rows[j] >= 1 <=> Completed(j))

(***************************************************************************)
(* C10: a job that wrote its audio file and then met a failure of a        *)
(* persistence step (the commit, or the write of the terminal state) ends  *)
(* FAILED for its clients and does not stay in PROGRESS.                   *)
(***************************************************************************)
PersistFailureEndsFailed ==
    \A j \in Jobs :
        (pc[j] = "done" /\ files[j] > 0 /\ persistFailed[j]) => Failed(j)

(***************************************************************************)
(* C11: each submitted job is executed at most once, by one worker, so all *)
(* state writes for a job id come from a single execution; also when a     *)
(* worker is killed or a job is forcefully terminated while late           *)
(* acknowledgement is enabled.                                             *)
(***************************************************************************)
ExecutedAtMostOnce == \A j \in Jobs : Len(ran[j]) <= 1

(***************************************************************************)
(* C12: get_task_status for a task id that generate_audio_celery never     *)
(* returned answers with a NotFound status, which differs from the answer  *)
(* for a job that was submitted and has not started.                       *)
(***************************************************************************)
NeverIssued(i) == \A k \in 1..Len(issued) : issued[k] # i

\* what a client can tell from a status response, apart from the id it sent
Told(r) == <<r.state, r.status, r.result, r.file_path>>

UnknownIdIsNotFound ==
    (status_resp.state # "none" /\ NeverIssued(status_resp.task_id)) =>
        /\ status_resp.state = "NotFound"
        /\ \A j \in Jobs :
              pc[j] = "queued" /\ meta[j].state = "PENDING"
              => Told(status_resp) # Told(get_task_status(j, now))

(***************************************************************************)
(* C13: every generate_audio_celery call returns a task id that no earlier *)
(* call returned, returns while the job is still queued (nothing of it has *)
(* been executed), and a status request made right after the call reports  *)
(* PENDING or a later state, never NotFound.                               *)
(***************************************************************************)
IssuedBefore(i) == \E k \in 1..Len(issued) : issued[k] = i

PendingOrLater == {"PENDING", "STARTED", "PROGRESS", "SUCCESS", "FAILURE", "REVOKED"}

SubmitReturnsFreshId ==
    [][Len(issued') > Len(issued) =>
         LET id == issued'[Len(issued')]
         IN  /\ ~IssuedBefore(id)
             /\ pc'[id] = "queued" /\ owner'[id] = 0 /\ meta'[id] = NoMeta
             /\ StatusOf(id, meta'[id], now').state \in PendingOrLater]_vars

\* two jobs have been submitted and the status of the second has been asked
\* for while it waits in the queue
SecondJobStatusAsked ==
    /\ Len(issued) = 2
    /\ status_resp.task_id = issued[2]
    /\ pc[issued[2]] = "queued"
    /\ status_resp.state = "PENDING"

(***************************************************************************)
(* C14: a load_model_pipeline call for a model that is resident returns    *)
(* the entry (the same handle) the cache holds, creates no new model       *)
(* object, evicts nothing and leaves the cache as it was.                  *)
(***************************************************************************)
HitReturnsCachedHandle ==
    [][\A c \in Callers :
          (acq[c].pc = "check" /\ acq[c].name \in DOMAIN LOADED_MODELS[CacheProc])
          => /\ acq'[c].pc = "idle" /\ acq'[c].ret = "hit"
             /\ acq'[c].entry = LOADED_MODELS[CacheProc][acq[c].name]
             /\ acq'[c].evicted = {}
             /\ LOADED_MODELS' = LOADED_MODELS
             /\ nloads' = nloads]_vars

\* a call has returned the handle an earlier call loaded
ReturnedCachedHandle ==
    \E c \in Callers :
        /\ acq[c].pc = "idle" /\ acq[c].ret = "hit"
        /\ acq[c].entry.handle >= 1
        /\ LOADED_MODELS[CacheProc] = (acq[c].name :> acq[c].entry)

(***************************************************************************)
(* C15: when the load of the requested model fails, load_model_pipeline    *)
(* raises to its caller instead of going on with another device or         *)
(* another way of loading, and the cache has no entry for that model.      *)
(***************************************************************************)
LoadFailurePropagates ==
    [][\A c \in Callers :
          (acq[c].pc = "load" /\ acq'[c].failed)
          => /\ acq'[c].pc = "idle" /\ acq'[c].ret = "raised"
             /\ acq[c].name \notin DOMAIN LOADED_MODELS'[CacheProc]]_vars

(***************************************************************************)
(* Requests for an audio file, as the claims speak of them                 *)
(***************************************************************************)
Served == "200 FileResponse"

RejectedMissing == "403 Missing signature or expiry"

RejectedExpired == "403 Link expired"

RejectedSignature == "403 Invalid signature"

\* the link of the last status response, when it carries a signature
SignedLink == status_resp.file_path

HasSignedLink == SignedLink.signature # ""

\* the clock has not passed the expiry e (in seconds)
NotPast(e) == now <= e * TicksPerSecond

(***************************************************************************)
(* C16: a link made by sign_path passes the missing, expiry and signature  *)
(* checks of get_audio_file at every time up to its expiry, the moment of  *)
(* signing included; get_task_status attaches such a link to the path of   *)
(* every completed job.                                                    *)
(***************************************************************************)
PassesChecks(link) ==
    get_audio_file(RouteFilename(link.path), link.expires, link.signature, now)
        \notin {RejectedMissing, RejectedExpired, RejectedSignature}

SignedLinkVerifies ==
    /\ \A j \in Jobs :
          Completed(j) =>
              LET link == get_task_status(j, now).file_path
              IN  /\ link.path = web_path(j) /\ link.signature # ""
                  /\ PassesChecks(link)
    /\ (HasSignedLink /\ NotPast(SignedLink.expires)) => PassesChecks(SignedLink)

\* the file of a completed job was served for the link of a status response
\* at the last moment of the link's lifetime
ServedAtExpiry ==
    /\ HasSignedLink
    /\ file_resp.outcome = Served
    /\ file_resp.filename = RouteFilename(SignedLink.path)
    /\ file_resp.expires = SignedLink.expires
    /\ file_resp.signature = SignedLink.signature
    /\ file_resp.at = SignedLink.expires * TicksPerSecond

(***************************************************************************)
(* C17 as amended: get_audio_file never serves a file when the clock has   *)
(* passed the expiry of the request, whether or not the signature is       *)
(* correct; the request is rejected as expired when it carries an expiry   *)
(* other than 0 and a signature, and as missing otherwise.                 *)
(***************************************************************************)
ExpiredOutcome(e, s) == IF e = 0 \/ s = "" THEN RejectedMissing ELSE RejectedExpired

ExpiredNeverServed ==
    /\ \A f \in RequestNames(SignedLink), e \in RequestExpiries(SignedLink),
          s \in RequestSignatures(SignedLink) :
          ~NotPast(e) => get_audio_file(f, e, s, now) = ExpiredOutcome(e, s)
    /\ (file_resp.outcome # "none" /\ file_resp.at > file_resp.expires * TicksPerSecond)
       => file_resp.outcome = ExpiredOutcome(file_resp.expires, file_resp.signature)

\* C17 as stated: every request whose expiry lies in the past is rejected
\* as expired
ExpiredAlwaysReportedExpired ==
    (file_resp.outcome # "none" /\ file_resp.at > file_resp.expires * TicksPerSecond)
    => file_resp.outcome = RejectedExpired

\* a request for a file that exists, with the signature of its file name and
\* expiry, was rejected because the expiry had passed
ExpiredLinkRejected ==
    /\ file_resp.outcome = RejectedExpired
    /\ FileExists(file_resp.filename)
    /\ file_resp.signature = hmac_hexdigest(SECRET_KEY, file_resp.filename \o ":"
                                                        \o ToString(file_resp.expires))

(***************************************************************************)
(* C18 as amended: a signature is accepted only for the file name and      *)
(* expiry it was made for.  A link of sign_path with its file name, its    *)
(* expiry or its signature changed is never served; it is rejected as an   *)
(* invalid signature when the changed request has an expiry other than 0   *)
(* that has not passed and a signature that is not empty and is ASCII      *)
(* (as missing, as expired, or with an error of the comparison otherwise). *)
(***************************************************************************)
\* a link with one of its three parts changed
Changed(link) ==
    {<<f, link.expires, link.signature>> :
         f \in RequestNames(link) \ {RouteFilename(link.path)}}
    \cup {<<RouteFilename(link.path), e, link.signature>> :
         e \in RequestExpiries(link) \ {link.expires}}
    \cup {<<RouteFilename(link.path), link.expires, s>> :
         s \in RequestSignatures(link) \ {link.signature}}

FiveOutcomes ==
    file_resp.outcome # "none" =>
        file_resp.outcome \in {Served, RejectedMissing, RejectedExpired, RejectedSignature,
                               "404 File not found"}

(***************************************************************************)
(* C20: a job whose speaker is not its own base name is rejected before    *)
(* the model is taken from the cache (no model is loaded, the caches are   *)
(* as they were) and before any voice file is looked up, for every model   *)
(* family; no audio file and no AudioHistory row is written, and the job   *)
(* ends FAILED unless it was cancelled.                                    *)
(***************************************************************************)
NeverCancelled(j) == canc[j].pc = "idle" /\ report[j] = "none"

ExceptionsCaughtInTask ==
    \A j \in Jobs : meta[j].state # "FAILURE"

(***************************************************************************)
(* C22: a job in whose execution the soft time limit was raised, at        *)
(* whatever position, ends with the task's result 'timeout' (not 'error',  *)
(* not 'completed', not a Celery FAILURE) and without an AudioHistory row. *)
(***************************************************************************)
TimedOut(j) == meta[j] = mark_as_done("timeout")

TimeLimitEndsTimedOut ==
    \A j \in Jobs :
        (soft_limit[j] /\ pc[j] = "done") => (TimedOut(j) /\ rows[j] = 0)

(***************************************************************************)
(* C23: every cancellation marker that is written disappears again by the  *)
(* end of its lifetime (MARKER_TTL seconds), with no delete by the         *)
(* application; once a job is terminal and no cancel_task call for it is   *)
(* in flight, its marker is eventually gone for good.                      *)
(***************************************************************************)
MarkersExpire ==
    \A j \in Jobs :
        /\ (marker[j] > 0) ~> (marker[j] = 0)
        /\ (Terminal(j) /\ canc[j].pc = "idle") ~> [](marker[j] = 0)

\* the marker of a cancelled job that has ended is gone
MarkerOfEndedJobGone ==
    \E j \in Jobs :
        /\ canc[j].pc = "idle" /\ canc[j].wrote
        /\ Terminal(j)
        /\ marker[j] = 0

(***************************************************************************)
(* C24: the conversion to PCM of an array with at least one sample raises  *)
(* nothing and gives an array of the same length; an all-zero array gives  *)
(* an all-zero array; for an array whose peak is not 0 every output sample *)
(* lies in -32767..32767 and every sample of peak magnitude maps to 32767  *)
(* or -32767, with its sign.                                               *)
(***************************************************************************)
AllZero(a) == \A i \in DOMAIN a : a[i] = 0

\* the i-th sample of a has the largest magnitude of the array
IsPeak(a, i) == \A k \in DOMAIN a : Abs(a[k]) <= Abs(a[i])

PcmOf(a, r) ==
    /\ r.raised = "none"
    /\ Len(r.pcm) = Len(a)
    /\ AllZero(a) => AllZero(r.pcm)
    /\ ~AllZero(a) =>
          \A i \in DOMAIN a :
             /\ r.pcm[i] \in (0 - 32767)..32767
             /\ (IsPeak(a, i) /\ a[i] > 0) => r.pcm[i] = 32767
             /\ (IsPeak(a, i) /\ a[i] < 0) => r.pcm[i] = 0 - 32767

PcmNormalized ==
    (wav.called /\ wav.audio_data # << >>) => PcmOf(wav.audio_data, wav)

\* an array with a negative peak, a smaller sample and a zero has been converted
PeakScaled ==
    /\ wav.called
    /\ wav.audio_data = <<0 - 2, 1, 0>>
    /\ wav.pcm = <<0 - 32767, 16383, 0>>

\* C24 as stated, for every array, the one without samples included
PcmNormalizedAnyLength == wav.called => PcmOf(wav.audio_data, wav)

(***************************************************************************)
(* C25: within an execution the progress notes are written in the order    *)
(* loading model, configuring voice, synthesizing, saving, each taking the *)
(* place of the one before it in the task's record, which holds the latest *)
(* note only; the record becomes that of a completed job only from the     *)
(* fourth note.                                                            *)
(***************************************************************************)
NoteRank(m) == CASE m = mark_as_started -> 0
                 [] m = update_state("Loading model...") -> 1
                 [] m = update_state("Configuring voice") -> 2
                 [] m = update_state("Synthesizing audio...") -> 3
                 [] m = update_state("Saving audio file...") -> 4
                 [] OTHER -> 5

\* the rank of the latest note of a task at position p
RankAt(p) == CASE p = "L50" -> 0
               [] p \in {"L70", "L72"} -> 1
               [] p \in {"L75", "L80"} -> 2
               [] p \in {"L83", "generate", "L196", "L199", "L215", "L223"} -> 3
               [] p \in {"L239", "L256", "L257"} -> 4
               [] OTHER -> 5

NotesInOrder ==
    /\ [](\A j \in Jobs : RankAt(pc[j]) < 5 => NoteRank(meta[j]) = RankAt(pc[j]))
    /\ [][\A j \in Jobs :
            /\ (meta'[j] # meta[j] /\ meta'[j].state = "PROGRESS")
                  => (NoteRank(meta'[j]) \in 1..4 /\ NoteRank(meta'[j]) = NoteRank(meta[j]) + 1)
            /\ (Completed(j)' /\ ~Completed(j))
                  => (NoteRank(meta[j]) = 4 /\ retval[j] = "completed")]_vars

\* the fourth note has taken the place of the third
SavingNoteLatest ==
    \E j \in Jobs : pc[j] = "L239" /\ meta[j] = update_state("Saving audio file...")

(***************************************************************************)
(* C26: once cancel_task has answered 'cancelled' for a job that is still  *)
(* in the queue, the job never reaches the synthesis call, never becomes   *)
(* completed and never has an audio file or an AudioHistory row, however   *)
(* long it stays in the queue and whether or not its marker has expired.   *)
(***************************************************************************)
CancelledInQueue(j) ==
    pc[j] = "queued" /\ canc[j].pc = "idle" /\ report[j] = "cancelled"

NoSynthesis(j) ==
    /\ pc[j] # "generate"
    /\ ~Completed(j)
    /\ files[j] = 0
    /\ rows[j] = 0

CancelledInQueueNeverRuns ==
    \A j \in Jobs : [](CancelledInQueue(j) => []NoSynthesis(j))

(***************************************************************************)
(* C27: on every execution path (streaming VibeVoice, standard VibeVoice,  *)
(* pipeline) the synthesis call is given the cancellation probe of the     *)
(* job's own id: a job that is inside the synthesis call always has a call *)
(* that polls stop_check_fn.                                               *)
(***************************************************************************)
ProbePassedOnEveryPath ==
    \A j \in Jobs : pc[j] = "generate" => (PassesProbe(j) /\ ENABLED StopCheck(j))

(***************************************************************************)
(* C28: in no interleaving of cancel_task with the worker does the handler *)
(* write the marker, or broadcast the revoke with terminate, for a job     *)
(* whose state is already terminal at that step.                           *)
(***************************************************************************)
WritesMarker(j) == canc[j].pc = "setex" /\ canc'[j].pc # "setex" /\ canc'[j].wrote

SendsRevoke(j) == canc[j].pc = "revoke" /\ canc'[j].pc = "idle"

NoCancelActionAfterTerminal ==
    [][\A j \in Jobs : Terminal(j) => ~(WritesMarker(j) \/ SendsRevoke(j))]_vars

(***************************************************************************)
(* C29: a job whose execution is over in any state other than completed    *)
(* has no audio file left in AUDIO_DIR: neither a commit that fails after  *)
(* the file was written nor a termination between the file write and the   *)
(* commit leaves a file without its AudioHistory row.                      *)
(***************************************************************************)
NoFileUnlessCompleted ==
    \A j \in Jobs :
        (pc[j] \in Ended /\ ~Completed(j)) => files[j] = 0

(***************************************************************************)
(* C30: get_audio_file checks, in this order, missing parameter, expiry,   *)
(* signature, path containment, file existence, and the first check that   *)
(* fails decides the answer: a request with expires = 0 or an empty        *)
(* signature gets Missing whatever else is wrong; an expired request gets  *)
(* Expired whatever its signature; a request gets as far as the            *)
(* containment and existence checks only with the signature of its own     *)
(* file name and expiry, not expired, and containment is decided before    *)
(* existence.                                                              *)
(***************************************************************************)
RejectedPath == "403 Invalid path"

NotFound == "404 File not found"

\* the clock reading t is not past the expiry e (in seconds)
InTime(t, e) == t <= e * TicksPerSecond

ChecksOrdered(f, e, s, t, o) ==
    /\ (e = 0 \/ s = "") => o = RejectedMissing
    /\ (e # 0 /\ s # "" /\ ~InTime(t, e)) => o = RejectedExpired
    /\ o \in {RejectedPath, NotFound, Served}
          => (e # 0 /\ s # "" /\ InTime(t, e) /\ s = create_access_signature(f, e))
    /\ (e # 0 /\ s # "" /\ InTime(t, e) /\ s = create_access_signature(f, e) /\ f = "..")
          => o = RejectedPath
    /\ o \in {NotFound, Served} => f # ".."
    /\ o = Served => \E j \in Jobs : files[j] > 0 /\ f = AudioName(j)

FirstFailingCheckReported ==
    /\ \A f \in RequestNames(SignedLink), e \in RequestExpiries(SignedLink),
          s \in RequestSignatures(SignedLink) :
          ChecksOrdered(f, e, s, now, get_audio_file(f, e, s, now))
    /\ file_resp.outcome # "none"
          => ChecksOrdered(file_resp.filename, file_resp.expires, file_resp.signature,
                           file_resp.at, file_resp.outcome)

\* a request that is expired and carries a signature made for another expiry
\* has been answered Expired
ExpiredWrongSignatureAnswered ==
    /\ file_resp.outcome = RejectedExpired
    /\ file_resp.signature # ""
    /\ file_resp.signature
          # create_access_signature(file_resp.filename, file_resp.expires)

(***************************************************************************)
(* C31: a call of stop_check_fn during which the store fails answers False:*)
(* the job stays inside the synthesis call, nothing is returned for it and *)
(* its record is not changed, whether or not its marker is present.        *)
(***************************************************************************)
ProbeFails(j) == ~probe_errors[j] /\ probe_errors'[j]

ProbeFailureIsNotCancelled ==
    [][\A j \in Jobs :
          ProbeFails(j) => /\ pc[j] = "generate" /\ pc'[j] = "generate"
                           /\ retval'[j] = retval[j]
                           /\ meta'[j] = meta[j]
                           /\ markerAtReturn'[j] = markerAtReturn[j]]_vars

\* the store has failed a probe of a job whose marker is present, and the job
\* is still inside the synthesis call
ProbeFailedWhileMarked ==
    \E j \in Jobs : probe_errors[j] /\ marker[j] > 0 /\ pc[j] = "generate"

(***************************************************************************)
(* C32: when a call load_model_pipeline(B) made while another model A is   *)
(* resident fails, the cache is empty when the call raises: A was evicted  *)
(* before the load and is not put back.  A call made while the cache is    *)
(* empty, for A or any other model, is a miss and loads a new object.      *)
(***************************************************************************)
Raises(c) == acq[c].pc = "load" /\ acq'[c].pc = "idle"

FailedLoadLeavesCacheEmpty ==
    [][\A c \in Callers :
          /\ Raises(c)
                => /\ acq'[c].ret = "raised"
                   /\ LOADED_MODELS'[CacheProc] = EmptyCache
                   /\ \A a \in acq[c].evicted : a \notin DOMAIN LOADED_MODELS'[CacheProc]
          /\ (acq[c].pc = "check" /\ LOADED_MODELS[CacheProc] = EmptyCache)
                => /\ acq'[c].pc = "evict"
                   /\ acq'[c].ret # "hit"
          /\ (acq[c].pc = "load" /\ acq'[c].pc = "insert")
                => /\ nloads' = nloads + 1
                   /\ acq'[c].entry.handle = nloads']_vars

\* a call has failed after evicting a resident model, and a later call has
\* loaded that model again into the empty cache
ReloadedAfterFailedLoad ==
    \E c, d \in Callers :
        /\ c # d
        /\ acq[c].pc = "idle" /\ acq[c].ret = "raised" /\ acq[c].evicted # {}
        /\ acq[d].pc = "idle" /\ acq[d].ret = "loaded"
        /\ acq[d].name \in acq[c].evicted
        /\ acq[d].evicted = {}
        /\ DOMAIN LOADED_MODELS[CacheProc] = {acq[d].name}
        /\ nloads = 2

(***************************************************************************)
(* C33: at most one download per repo_id is in flight at any time: of the  *)
(* downloads of a repo_id that were accepted, at most one has not          *)
(* finished, the time between the acceptance of a request and the start of *)
(* its background task included.                                           *)
(***************************************************************************)
OneDownloadPerRepo == \A r \in ALLOWED_MODELS : InFlight(r) <= 1

====
